---- MODULE Spec2Model ----
(***************************************************************************)
(* A model of the RAW development pipeline of src-tauri/src/lib.rs:        *)
(* the demosaic and calibration engine (process_bayer and its helpers),    *)
(* the colour grading function (apply_processing) and the session cache    *)
(* written by load_raw.                                                    *)
(*                                                                         *)
(* The program computes in IEEE-754 single precision (Rust f32).  The      *)
(* model keeps that arithmetic: an f32 is a record [k, s, m, e] that is    *)
(* NaN, a signed infinity, or the finite number (-1)^s * m * 2^e with a    *)
(* 24 bit significand, and every operation rounds to nearest, ties to      *)
(* even, as the hardware does.                                             *)
(***************************************************************************)
EXTENDS Integers, Sequences, FiniteSets, TLC

(***************************************************************************)
(* f32: representation                                                     *)
(***************************************************************************)

\* Significand width of f32, and the exponent range of the (m, e) form.
MantBits == 24
EMin == -149
EMax == 104

Pow2(n) == 2 ^ n

NaN == [k |-> "nan", s |-> 0, m |-> 0, e |-> 0]
Inf(sg) == [k |-> "inf", s |-> sg, m |-> 0, e |-> 0]
Zero(sg) == [k |-> "fin", s |-> sg, m |-> 0, e |-> 0]
F(sg, mant, ex) == [k |-> "fin", s |-> sg, m |-> mant, e |-> ex]

IsNaN(a) == a.k = "nan"
IsInf(a) == a.k = "inf"
IsFinite(a) == a.k = "fin"
IsZero(a) == a.k = "fin" /\ a.m = 0

RECURSIVE BitLenR(_)
BitLenR(n) == IF n = 0 THEN 0 ELSE 1 + BitLenR(n \div 2)

\* the number of bits of n >= 0
BitLen(n) ==
    IF n >= Pow2(24) THEN 24 + BitLenR(n \div Pow2(24))
    ELSE IF n >= Pow2(12) THEN 12 + BitLenR(n \div Pow2(12))
    ELSE BitLenR(n)

\* a finite value from a rounded significand: a carry out of the 24 bits
\* renormalises, an exponent above the range overflows to infinity
Pack(sg, m1, e1) ==
    IF m1 = 0 THEN Zero(sg)
    ELSE IF m1 = Pow2(MantBits)
         THEN (IF e1 + 1 > EMax THEN Inf(sg) ELSE F(sg, Pow2(MantBits - 1), e1 + 1))
    ELSE IF m1 >= Pow2(MantBits - 1) /\ e1 > EMax THEN Inf(sg)
    ELSE F(sg, m1, e1)

\* round to nearest, ties to even: q is the kept part, r the dropped part
RoundUp(q, r, half, sticky) ==
    IF r > half \/ (r = half /\ (sticky \/ q % 2 = 1)) THEN q + 1 ELSE q

\* drop sh bits of M (sh <= 0: none to drop, M is exact)
RoundShift(sg, M, E, sticky, L, sh) ==
    IF sh <= 0 THEN Pack(sg, M * Pow2(-sh), E + sh)
    ELSE IF sh > L + 1 THEN Zero(sg)
    ELSE Pack(sg, RoundUp(M \div Pow2(sh), M % Pow2(sh), Pow2(sh - 1), sticky), E + sh)

\* the bits to drop from an L bit M: down to 24 bits, more for a subnormal
RoundBits(sg, M, E, sticky, L) ==
    RoundShift(sg, M, E, sticky, L,
               IF L - MantBits >= EMin - E THEN L - MantBits ELSE EMin - E)

\* Round the exact value (-1)^sg * (M + t) * 2^E, where 0 < t < 1 when sticky
\* and t = 0 otherwise, to the nearest f32 (ties to even).  With sticky set
\* the callers pass at least 25 significant bits in M.
Round(sg, M, E, sticky) ==
    IF M = 0 THEN Zero(sg) ELSE RoundBits(sg, M, E, sticky, BitLen(M))

\* u16 / usize as f32
FromInt(n) == Round(IF n >= 0 THEN 0 ELSE 1, IF n >= 0 THEN n ELSE -n, 0, FALSE)

\* A finite non-zero value with its significand shifted up to 24 bits
\* (only a subnormal changes).
NormBy(a, sh) == [m |-> a.m * Pow2(sh), e |-> a.e - sh]
Norm(a) == NormBy(a, MantBits - BitLen(a.m))

Neg(a) == IF IsNaN(a) THEN a ELSE [a EXCEPT !.s = 1 - a.s]

(***************************************************************************)
(* f32: comparison (a NaN compares false with everything)                  *)
(***************************************************************************)

\* |a| < |b| for finite a, b in canonical form
MagLt(a, b) ==
    IF a.m = 0 THEN b.m # 0
    ELSE IF b.m = 0 THEN FALSE
    ELSE a.e < b.e \/ (a.e = b.e /\ a.m < b.m)

Lt(a, b) ==
    IF IsNaN(a) \/ IsNaN(b) THEN FALSE
    ELSE IF IsInf(a) THEN a.s = 1 /\ ~(IsInf(b) /\ b.s = 1)
    ELSE IF IsInf(b) THEN b.s = 0
    ELSE IF IsZero(a) /\ IsZero(b) THEN FALSE
    ELSE IF a.s # b.s THEN a.s = 1
    ELSE IF a.s = 0 THEN MagLt(a, b) ELSE MagLt(b, a)

Gt(a, b) == Lt(b, a)

\* the == of f32: +0 == -0, NaN == nothing
FEq(a, b) ==
    IF IsNaN(a) \/ IsNaN(b) THEN FALSE
    ELSE IF IsZero(a) /\ IsZero(b) THEN TRUE
    ELSE a = b

Ge(a, b) == Gt(a, b) \/ FEq(a, b)
Le(a, b) == Lt(a, b) \/ FEq(a, b)

\* f32::max, f32::min: a NaN operand is ignored
FMax(a, b) == IF IsNaN(a) THEN b ELSE IF IsNaN(b) THEN a ELSE IF Lt(a, b) THEN b ELSE a
FMin(a, b) == IF IsNaN(a) THEN b ELSE IF IsNaN(b) THEN a ELSE IF Lt(b, a) THEN b ELSE a

\* f32::clamp: a NaN stays a NaN
Clamp(x, lo, hi) == IF Lt(x, lo) THEN lo ELSE IF Gt(x, hi) THEN hi ELSE x

(***************************************************************************)
(* f32: addition, subtraction                                              *)
(***************************************************************************)

\* MX and MY are the operands' significands aligned on 2^E, st says that
\* bits of the smaller one were shifted out
AddSigned(sa, sb, MX, MY, E, st) ==
    IF sa # sb /\ ~st /\ MX = MY THEN Zero(0)
    ELSE Round(IF sa = sb \/ st \/ MX > MY THEN sa ELSE sb,
               IF sa = sb THEN MX + MY
               ELSE IF st THEN MX - MY - 1
               ELSE IF MX > MY THEN MX - MY ELSE MY - MX,
               E, st)

\* b's significand moved to a's exponent, with three guard bits
AddShift(a, b, d) ==
    AddSigned(a.s, b.s, a.m * 8,
              IF d <= 3 THEN b.m * Pow2(3 - d)
              ELSE IF d - 3 > MantBits THEN 0 ELSE b.m \div Pow2(d - 3),
              a.e - 3,
              IF d <= 3 THEN FALSE
              ELSE IF d - 3 > MantBits THEN TRUE ELSE b.m % Pow2(d - 3) # 0)

\* finite, non-zero a and b with a.e >= b.e
AddAligned(a, b) == AddShift(a, b, a.e - b.e)

\* the operands with the larger exponent first
AddOrdered(a, b, swap) == AddAligned(IF swap THEN b ELSE a, IF swap THEN a ELSE b)

Add(a, b) ==
    IF IsNaN(a) \/ IsNaN(b) THEN NaN
    ELSE IF IsInf(a) THEN (IF IsInf(b) /\ a.s # b.s THEN NaN ELSE a)
    ELSE IF IsInf(b) THEN b
    ELSE IF IsZero(a) /\ IsZero(b) THEN (IF a.s = b.s THEN a ELSE Zero(0))
    ELSE IF IsZero(a) THEN b
    ELSE IF IsZero(b) THEN a
    ELSE AddOrdered(a, b, a.e < b.e)

Sub(a, b) == Add(a, Neg(b))

(***************************************************************************)
(* f32: multiplication, division                                           *)
(***************************************************************************)

Xor(x, y) == IF x = y THEN 0 ELSE 1

\* The 48 bit product of two 24 bit significands, from 12 bit halves:
\* hi0 * 2^24 + lo, rounded from its top 26 bits and a sticky bit.
MulHiLo(sg, E, hi0, lo) ==
    Round(sg, (hi0 + (lo \div Pow2(24))) * 4 + ((lo % Pow2(24)) \div Pow2(22)), E,
          (lo % Pow2(24)) % Pow2(22) # 0)

MulSum(sg, E, P, Q, R) == MulHiLo(sg, E, P + (Q \div 4096), R + (Q % 4096) * 4096)

MulParts(sg, E, ah, al, bh, bl) == MulSum(sg, E, ah * bh, ah * bl + al * bh, al * bl)

MulNorm(sg, na, nb) ==
    MulParts(sg, na.e + nb.e + 22, na.m \div 4096, na.m % 4096,
             nb.m \div 4096, nb.m % 4096)

MulFinite(sg, a, b) == MulNorm(sg, Norm(a), Norm(b))

Mul(a, b) ==
    IF IsNaN(a) \/ IsNaN(b) THEN NaN
    ELSE IF IsInf(a) \/ IsInf(b)
         THEN (IF IsZero(a) \/ IsZero(b) THEN NaN ELSE Inf(Xor(a.s, b.s)))
    ELSE IF IsZero(a) \/ IsZero(b) THEN Zero(Xor(a.s, b.s))
    ELSE MulFinite(Xor(a.s, b.s), a, b)

\* Long division: n more quotient bits of r / d appended to q.
RECURSIVE DivBits(_, _, _, _)
DivBits(r, d, n, q) ==
    IF n = 0 THEN [q |-> q, r |-> r]
    ELSE DivBits((r * 2) % d, d, n - 1, q * 2 + ((r * 2) \div d))

DivRound(sg, E, qr) == Round(sg, qr.q, E, qr.r # 0)

\* 27 quotient bits, the remainder as the sticky bit
DivNorm(sg, na, nb) ==
    DivRound(sg, na.e - nb.e - 26, DivBits(na.m % nb.m, nb.m, 26, na.m \div nb.m))

DivFinite(sg, a, b) == DivNorm(sg, Norm(a), Norm(b))

Div(a, b) ==
    IF IsNaN(a) \/ IsNaN(b) THEN NaN
    ELSE IF IsInf(a) THEN (IF IsInf(b) THEN NaN ELSE Inf(Xor(a.s, b.s)))
    ELSE IF IsInf(b) THEN Zero(Xor(a.s, b.s))
    ELSE IF IsZero(b) THEN (IF IsZero(a) THEN NaN ELSE Inf(Xor(a.s, b.s)))
    ELSE IF IsZero(a) THEN Zero(Xor(a.s, b.s))
    ELSE DivFinite(Xor(a.s, b.s), a, b)

(***************************************************************************)
(* f32: conversions to integers                                            *)
(***************************************************************************)

\* f32::ceil followed by `as usize` (a saturating cast: NaN and negative
\* values give 0).  The values the model converts stay below 2^31.
CeilToUsize(a) ==
    IF ~IsFinite(a) \/ a.s = 1 \/ a.m = 0 THEN 0
    ELSE IF a.e >= 0 THEN a.m * Pow2(a.e)
    ELSE IF -a.e > MantBits THEN 1
    ELSE (a.m + Pow2(-a.e) - 1) \div Pow2(-a.e)

\* 0-based arrays, as in the source
A0(seq) == [i \in 0 .. Len(seq) - 1 |-> seq[i + 1]]

One == F(0, 8388608, -23)
FZero == Zero(0)

(***************************************************************************)
(* The decoded frame (rawloader::RawImage), read-only input of the engine: *)
(*   width, height  sensor dimensions (usize)                              *)
(*   kind           "Integer" or "Float" (RawImageData)                    *)
(*   pat            the samples: data[idx] = pat[idx % Len(pat)]           *)
(*   blacklevels, whitelevels  [u16; 4]                                    *)
(*   wb_coeffs      [f32; 4]                                               *)
(*   xyz            the first three rows of cam_to_xyz_normalized()        *)
(*   cfa            the 2x2 colour filter tile read by cfa.color_at        *)
(***************************************************************************)

RawData(raw, idx) == raw.pat[(idx % Len(raw.pat)) + 1]

\* raw.cfa.color_at(a, b), with the arguments in the order the caller gives
color_at(cfa, a, b) == cfa[(a % 2) * 2 + (b % 2)]

(***************************************************************************)
(* mult_matrix, calculate_cam_to_srgb, calculate_wb_norm                   *)
(***************************************************************************)

mult_matrix(m, v) ==
    [i \in 0 .. 2 |->
        Add(Add(Mul(m[i][0], v[0]), Mul(m[i][1], v[1])), Mul(m[i][2], v[2]))]

\* XYZ (D65) -> sRGB, the f32 nearest to each literal of the source
xyz_to_srgb ==
    A0(<< A0(<<F(0, 13591450, -22), F(1, 12894452, -23), F(1, 16727938, -25)>>),
          A0(<<F(1, 16261585, -24), F(0, 15737119, -23), F(0, 11155104, -28)>>),
          A0(<<F(0, 14936661, -28), F(1, 13691946, -26), F(0, 8868648, -23)>>) >>)

Identity3 ==
    A0(<< A0(<<One, FZero, FZero>>),
          A0(<<FZero, One, FZero>>),
          A0(<<FZero, FZero, One>>) >>)

\* cam_to_srgb[i][j] += xyz_to_srgb[i][k] * cam_to_xyz[k][j], k = 0, 1, 2
ComposeMatrix(cam_to_xyz) ==
    [i \in 0 .. 2 |-> [j \in 0 .. 2 |->
        Add(Add(Add(FZero, Mul(xyz_to_srgb[i][0], cam_to_xyz[0][j])),
                Mul(xyz_to_srgb[i][1], cam_to_xyz[1][j])),
            Mul(xyz_to_srgb[i][2], cam_to_xyz[2][j]))]]

\* cam_to_srgb.iter().flatten().sum(): row major, left to right
RECURSIVE SumFrom(_, _, _)
SumFrom(m, n, acc) ==
    IF n = 9 THEN acc ELSE SumFrom(m, n + 1, Add(acc, m[n \div 3][n % 3]))

MatrixSum(m) == SumFrom(m, 0, FZero)

\* if sum == 0.0 { return identity }
IdentityFallback(cam_to_srgb) ==
    IF FEq(MatrixSum(cam_to_srgb), FZero) THEN Identity3 ELSE cam_to_srgb

calculate_cam_to_srgb(raw) == IdentityFallback(ComposeMatrix(raw.xyz))

WbThreshold == F(0, 13743895, -37)   \* 0.0001

WbNorm(wb, g_val) ==
    [i \in 0 .. 3 |-> IF Gt(g_val, WbThreshold) THEN Div(wb[i], g_val) ELSE One]

calculate_wb_norm(raw) ==
    WbNorm(raw.wb_coeffs, IF Gt(raw.wb_coeffs[1], FZero) THEN raw.wb_coeffs[1] ELSE One)

(***************************************************************************)
(* process_bayer                                                           *)
(***************************************************************************)

F1024 == F(0, 8388608, -13)

\* if step % 2 != 0 { step += 1; }
\* if step % 2 != 0 { step += 1; }
EvenStep(s0) == IF s0 % 2 # 0 THEN s0 + 1 ELSE s0

\* (full_w as f32 / 1024.0).ceil() as usize, at least 2
PreviewStep(s) == IF s < 2 THEN 2 ELSE s

\* the step of the block average
BayerStep(full_w, full_quality) ==
    EvenStep(IF full_quality THEN 2
             ELSE PreviewStep(CeilToUsize(Div(FromInt(full_w), F1024))))

\* The cells <<bx, by>> of the block at (src_x, src_y) that the two loops
\* visit, in their order: the cells that pass both bounds checks.
BlockCells(src_x, src_y, step, full_w, full_h) ==
    SelectSeq([n \in 1 .. step * step |-> <<(n - 1) % step, (n - 1) \div step>>],
              LAMBDA c : ~(src_y + c[2] >= full_h) /\ ~(src_x + c[1] >= full_w))

\* the index into raw_data of a block cell
CellIndex(src_x, src_y, c, full_w) == (src_y + c[2]) * full_w + (src_x + c[1])

\* one cell of colour `color` and sample raw_val: black level off, divided
\* by the green range, floored at 0, white balanced
CellOf(raw, wb_norm, white_range, black_level, color, raw_val) ==
    [color  |-> color,
     wb_val |-> Mul(FMax(Div(Sub(raw_val,
                                 IF color < 4 THEN FromInt(raw.blacklevels[color])
                                 ELSE black_level),
                             white_range), FZero),
                    IF color < 4 THEN wb_norm[color] ELSE One)]

CellValue(raw, wb_norm, white_range, black_level, src_x, src_y, c) ==
    CellOf(raw, wb_norm, white_range, black_level,
           color_at(raw.cfa, src_x + c[1], src_y + c[2]),
           FromInt(RawData(raw, CellIndex(src_x, src_y, c, raw.width))))

NoSums == [r_sum |-> FZero, g_sum |-> FZero, b_sum |-> FZero,
           r_cnt |-> FZero, g_cnt |-> FZero, b_cnt |-> FZero]

\* the match on the colour: one sum and one count grow
Accumulate(acc, cv) ==
    [r_sum |-> IF cv.color = 0 THEN Add(acc.r_sum, cv.wb_val) ELSE acc.r_sum,
     r_cnt |-> IF cv.color = 0 THEN Add(acc.r_cnt, One) ELSE acc.r_cnt,
     b_sum |-> IF cv.color = 2 THEN Add(acc.b_sum, cv.wb_val) ELSE acc.b_sum,
     b_cnt |-> IF cv.color = 2 THEN Add(acc.b_cnt, One) ELSE acc.b_cnt,
     g_sum |-> IF cv.color \notin {0, 2} THEN Add(acc.g_sum, cv.wb_val) ELSE acc.g_sum,
     g_cnt |-> IF cv.color \notin {0, 2} THEN Add(acc.g_cnt, One) ELSE acc.g_cnt]

RECURSIVE BlockSums(_, _, _, _, _, _, _, _, _)
BlockSums(raw, wb_norm, white_range, black_level, src_x, src_y, cells, n, acc) ==
    IF n > Len(cells) THEN acc
    ELSE BlockSums(raw, wb_norm, white_range, black_level, src_x, src_y, cells, n + 1,
                   Accumulate(acc, CellValue(raw, wb_norm, white_range, black_level,
                                             src_x, src_y, cells[n])))

\* the sum over the four cells of a 2x2 tile instead of the colour's count
AverageOverTile(sum, cnt) == IF Gt(cnt, FZero) THEN Div(sum, FromInt(4)) ELSE FZero

\* sum / count, or 0.0 for a colour the block has no sample of
Average(sum, cnt) == IF Gt(cnt, FZero) THEN Div(sum, cnt) ELSE FZero

Averages(acc) ==
    A0(<< Average(acc.r_sum, acc.r_cnt), Average(acc.g_sum, acc.g_cnt),
          Average(acc.b_sum, acc.b_cnt) >>)

\* the sums of the block whose corner is (src_x, src_y)
BlockAt(raw, step, src_x, src_y, black_level) ==
    BlockSums(raw, calculate_wb_norm(raw),
              Sub(FromInt(raw.whitelevels[1]), black_level), black_level,
              src_x, src_y,
              BlockCells(src_x, src_y, step, raw.width, raw.height), 1, NoSums)

\* <<r_avg, g_avg, b_avg>> of the block of output pixel (x, y)
BlockAverage(raw, step, x, y) ==
    Averages(BlockAt(raw, step, x * step, y * step, FromInt(raw.blacklevels[1])))

\* the four floats pushed for a pixel
ClampPixel(srgb) ==
    << Clamp(srgb[0], FZero, One), Clamp(srgb[1], FZero, One),
       Clamp(srgb[2], FZero, One), One >>

BayerPixel(raw, cam_to_srgb, step, x, y) ==
    ClampPixel(mult_matrix(cam_to_srgb, BlockAverage(raw, step, x, y)))

ErrFloat == "Float raw data not supported"

\* Result<PreviewContext, String>
Ok(w, h, data) == [ok |-> TRUE, err |-> "", width |-> w, height |-> h, data |-> data]
Err(msg) == [ok |-> FALSE, err |-> msg, width |-> 0, height |-> 0, data |-> << >>]

\* the quotient rounded up
OutDimCeil(full, step) == (full + step - 1) \div step

\* let w = full_w / step; let h = full_h / step;
OutDim(full, step) == full \div step

\* data: the pixels' floats, row by row
Flatten(px, n) == [k \in 1 .. n * 4 |-> px[(k - 1) \div 4][((k - 1) % 4) + 1]]

BayerRows(raw, cam_to_srgb, step, w, h) ==
    Ok(w, h, Flatten([p \in 0 .. w * h - 1 |->
                         BayerPixel(raw, cam_to_srgb, step, p % w, p \div w)], w * h))

BayerLoop(raw, cam_to_srgb, step) ==
    BayerRows(raw, cam_to_srgb, step, OutDim(raw.width, step), OutDim(raw.height, step))

\* the demosaic without the check of the sample encoding
ProcessAnyKind(raw, full_quality) ==
    BayerLoop(raw, calculate_cam_to_srgb(raw), BayerStep(raw.width, full_quality))

process_bayer(raw, full_quality) ==
    IF raw.kind # "Integer" THEN Err(ErrFloat)
    ELSE BayerLoop(raw, calculate_cam_to_srgb(raw), BayerStep(raw.width, full_quality))

(***************************************************************************)
(* apply_processing                                                        *)
(***************************************************************************)

\* a finite f32 holding a whole number, as that number
IntOf(a) ==
    CASE a.m = 0 -> 0
      [] a.m # 0 /\ a.e >= 0 -> (IF a.s = 1 THEN -1 ELSE 1) * a.m * Pow2(a.e)
      [] a.m # 0 /\ a.e < 0 /\ -a.e < MantBits /\ a.m % Pow2(-a.e) = 0 ->
             (IF a.s = 1 THEN -1 ELSE 1) * (a.m \div Pow2(-a.e))

\* 2.0_f32.powf(a).  The parameter sets of the model hold whole numbers of
\* stops, for which the power of two is exact.
Exp2(a) ==
    IF IsNaN(a) THEN NaN
    ELSE IF IsInf(a) THEN (IF a.s = 0 THEN a ELSE FZero)
    ELSE Round(0, 1, IntOf(a), FALSE)

\* x.powf(1.0 / 2.2) for x = max(v, 0): exact at 0, 1 and infinity; any other
\* root is kept as the term "pow" of its base, a finite positive number
PowGamma(x) ==
    IF IsNaN(x) \/ IsInf(x) \/ IsZero(x) THEN (IF IsZero(x) THEN FZero ELSE x)
    ELSE IF x = F(0, 8388608, -23) THEN x
    ELSE [k |-> "pow", s |-> 0, m |-> x.m, e |-> x.e]

F5500 == F(0, 11264000, -11)
F100 == F(0, 13107200, -17)
FHalf == F(0, 8388608, -24)        \* 0.5
F06 == F(0, 10066330, -24)         \* 0.6
F04 == F(0, 13421773, -25)         \* 0.4
F02 == F(0, 13421773, -26)         \* 0.2
F0001 == F(0, 8589935, -33)        \* 0.001
LumaR == F(0, 14267344, -26)       \* 0.2126
LumaG == F(0, 11999065, -24)       \* 0.7152
LumaB == F(0, 9690520, -27)        \* 0.0722

Rgb(r, g, b) == A0(<<r, g, b>>)

Scale3(rgb, gr, gg, gb) == Rgb(Mul(rgb[0], gr), Mul(rgb[1], gg), Mul(rgb[2], gb))

\* 1. white balance from temperature and tint
WbGains(rgb, ratio, tint) ==
    Scale3(rgb, Add(One, FMax(ratio, FZero)), Add(One, Div(tint, F100)),
           Sub(One, FMin(ratio, FZero)))

\* the neutral temperature taken as 6500
WhiteBalance6500(rgb, p) ==
    WbGains(rgb, Div(Sub(p.temperature, FromInt(6500)), FromInt(6500)), p.tint)

WhiteBalance(rgb, p) == WbGains(rgb, Div(Sub(p.temperature, F5500), F5500), p.tint)

\* 2. exposure
ExposureBy(rgb, mag) == Scale3(rgb, mag, mag, mag)

Exposure(rgb, p) ==
    IF ~FEq(p.exposure, FZero) THEN ExposureBy(rgb, Exp2(p.exposure)) ELSE rgb

\* 3. contrast about 0.5
ContrastBy(rgb, c) ==
    [i \in 0 .. 2 |-> Add(Mul(Sub(rgb[i], FHalf), c), FHalf)]

Contrast(rgb, p) ==
    IF ~FEq(p.contrast, FZero) THEN ContrastBy(rgb, Add(One, p.contrast)) ELSE rgb

\* 4. luma
Luma(rgb) == Add(Add(Mul(LumaR, rgb[0]), Mul(LumaG, rgb[1])), Mul(LumaB, rgb[2]))

\* 5. shadows and highlights, both masks from the luma before either
Boost(rgb, fact) == [i \in 0 .. 2 |-> Add(rgb[i], Mul(rgb[i], fact))]

Shadows(rgb, p, shadow_mask) ==
    IF ~FEq(p.shadows, FZero)
    THEN Boost(rgb, Mul(Mul(Sub(Exp2(p.shadows), One), shadow_mask), FHalf))
    ELSE rgb

Highlights(rgb, p, high_mask) ==
    IF ~FEq(p.highlights, FZero)
    THEN Boost(rgb, Mul(Mul(Sub(Exp2(p.highlights), One), high_mask), FHalf))
    ELSE rgb

ToneMasks(rgb, p, luma) ==
    Highlights(Shadows(rgb, p, Sub(One, Clamp(Div(luma, F06), FZero, One))), p,
               Clamp(Div(Sub(luma, F04), F06), FZero, One))

Tone(rgb, p) == ToneMasks(rgb, p, Luma(rgb))

\* 6. levels: the white point is moved when it is within 0.001 of the black
WhitePoint(black_point, white_point) ==
    IF Lt(Sub(white_point, black_point), F0001) THEN Add(black_point, F0001)
    ELSE white_point

RangeOf(black_point, white_point) == Sub(white_point, black_point)

BlackPoint(p) == Mul(p.blacks, F02)

\* let range = white_point - black_point
LevelsRange(p) ==
    RangeOf(BlackPoint(p), WhitePoint(BlackPoint(p), Add(One, Mul(p.whites, F02))))

LevelsBy(rgb, black_point, range) ==
    [i \in 0 .. 2 |-> Div(Sub(rgb[i], black_point), range)]

Levels(rgb, p) == LevelsBy(rgb, BlackPoint(p), LevelsRange(p))

\* 7. saturation about the luma after levels
SaturateBy(rgb, l, sat_mult) ==
    [i \in 0 .. 2 |-> Add(l, Mul(Sub(rgb[i], l), sat_mult))]

Saturation(rgb, p) ==
    IF ~FEq(p.saturation, FZero) THEN SaturateBy(rgb, Luma(rgb), Add(One, p.saturation))
    ELSE rgb

\* the stages before the gamma encoding
PreGamma(rgb, p) ==
    Saturation(Levels(Tone(Contrast(Exposure(WhiteBalance(rgb, p), p), p), p), p), p)

\* 8. gamma: max(v, 0) ^ (1 / 2.2)
GammaEncode(rgb) == [i \in 0 .. 2 |-> PowGamma(FMax(rgb[i], FZero))]

apply_processing(r, g, b, params) == GammaEncode(PreGamma(Rgb(r, g, b), params))

(***************************************************************************)
(* Inputs of the demosaic engine                                           *)
(***************************************************************************)

\* the decimal n / d as the nearest f32 (n and d below 2^24)
Dec(n, d) == Div(FromInt(n), FromInt(d))

\* largest sensor width and height of the frames that are demosaiced whole
MaxDim == 4

Mat3(a, b, c, d, e, f, g, h, i) ==
    A0(<< A0(<<FromInt(a), FromInt(b), FromInt(c)>>),
          A0(<<FromInt(d), FromInt(e), FromInt(f)>>),
          A0(<<FromInt(g), FromInt(h), FromInt(i)>>) >>)

\* camera -> XYZ matrices: missing (all zero), a non-zero one whose
\* composition sums to zero, the unit matrix, a mixed one
ZeroXyz == Mat3(0, 0, 0, 0, 0, 0, 0, 0, 0)
XyzSet == { ZeroXyz,
            Mat3(1, -1, 0, 0, 0, 0, 0, 0, 0),
            Mat3(1, 0, 0, 0, 1, 0, 0, 0, 1),
            Mat3(2, -1, 0, 0, 1, 0, -1, 0, 2) }

\* black and white levels: a 12 bit sensor, distinct black levels, a white
\* level equal to the black level, a white level below it
LevelSet ==
    { [b |-> A0(<<0, 0, 0, 0>>),         w |-> A0(<<4095, 4095, 4095, 4095>>)],
      [b |-> A0(<<60, 64, 68, 64>>),     w |-> A0(<<1023, 1023, 1023, 1023>>)],
      [b |-> A0(<<512, 512, 512, 512>>), w |-> A0(<<512, 512, 512, 512>>)],
      [b |-> A0(<<512, 512, 512, 512>>), w |-> A0(<<256, 256, 256, 256>>)] }

\* white balance coefficients: unit, daylight-like, daylight-like with the
\* unused fourth slot NaN, zero green, negative green, green 0.00005, all NaN
WbSet ==
    { A0(<<One, One, One, One>>),
      A0(<<Dec(2, 1), One, Dec(3, 2), One>>),
      A0(<<Dec(21, 10), One, Dec(3, 2), NaN>>),
      A0(<<Dec(2, 1), FZero, Dec(3, 2), FZero>>),
      A0(<<Dec(2, 1), Neg(One), Dec(3, 2), Neg(One)>>),
      A0(<<One, Dec(5, 100000), One, One>>),
      A0(<<NaN, NaN, NaN, NaN>>) }

RGGB == A0(<<0, 1, 1, 2>>)
CfaSet == { RGGB, A0(<<1, 0, 2, 1>>), A0(<<0, 1, 3, 2>>) }

PatSet == { <<2048>>, <<0, 1000, 4095>>, <<100, 600, 512, 3000, 40>> }

Frame(w, h, kind, pat, lv, wb, xyz, cfa) ==
    [width |-> w, height |-> h, kind |-> kind, pat |-> pat,
     blacklevels |-> lv.b, whitelevels |-> lv.w, wb_coeffs |-> wb,
     xyz |-> xyz, cfa |-> cfa]

BaseLevels == [b |-> A0(<<0, 0, 0, 0>>), w |-> A0(<<4095, 4095, 4095, 4095>>)]
UnitWb == A0(<<One, One, One, One>>)

\* every calibration on a 2x2 sensor; every size and filter tile with the
\* base calibration; floating point frames
Frames ==
    { Frame(2, 2, "Integer", pat, lv, wb, xyz, RGGB) :
        pat \in PatSet, lv \in LevelSet, wb \in WbSet, xyz \in XyzSet }
    \cup
    { Frame(d[1], d[2], "Integer", pat, lv, UnitWb, xyz, cfa) :
        d \in (1 .. MaxDim) \X (1 .. MaxDim), pat \in {<<2048>>, <<0, 1000, 4095>>},
        lv  \in { BaseLevels, [b |-> A0(<<512, 512, 512, 512>>), w |-> A0(<<512, 512, 512, 512>>)] },
        xyz \in { ZeroXyz }, cfa \in CfaSet }
    \cup
    { Frame(d, d, "Float", <<2048>>, BaseLevels, UnitWb, ZeroXyz, RGGB) : d \in {2, 4} }

(***************************************************************************)
(* State                                                                   *)
(***************************************************************************)

VARIABLES
    sensor,         \* process_bayer alone: the decoded frame it is handed (raw)
    quality,        \* the full_quality of the call
    locals,         \* the locals of the call: step, wb_norm, cam_to_srgb
    result,         \* what the call returned
    sensor_w,       \* step selection alone: the sensor width (full_w)
    chosen,         \* step selection alone: the quality and the step chosen
    blk,            \* the block loops alone: the pixel and the cells visited
    grade,          \* apply_processing alone: its arguments, locals and result
    preview_context, \* AppState.preview_context: the Option inside the Mutex
    mutex,          \* the Mutex: 0 when free, else the call that holds the guard
    th,             \* the command each thread is running: position and locals
    observed,       \* what the last reader of the cache got
    saved,          \* the images written by export_image
    calls           \* commands invoked so far

BayerVars == <<sensor, quality, locals, result>>
StepVars == <<sensor_w, chosen>>
SessionVars == <<preview_context, mutex, th, observed, saved, calls>>
vars == <<sensor, quality, locals, result, sensor_w, chosen, blk, grade, SessionVars>>

NotRun == Err("not run")
NoCalib == [run |-> FALSE, step |-> 0, wb_norm |-> << >>, cam_to_srgb |-> << >>]

NoFrame == [width |-> 0, height |-> 0, kind |-> "None", pat |-> << >>,
            blacklevels |-> << >>, whitelevels |-> << >>, wb_coeffs |-> << >>,
            xyz |-> << >>, cfa |-> << >>]

BayerIdle ==
    /\ sensor = NoFrame
    /\ quality = FALSE
    /\ locals = NoCalib
    /\ result = NotRun

NoStep == [run |-> FALSE, full_quality |-> FALSE, step |-> 0]

StepIdle == sensor_w = 1 /\ chosen = NoStep

NoBlock == [run |-> FALSE, full_w |-> 0, full_h |-> 0, full_quality |-> FALSE,
            step |-> 0, w |-> 0, h |-> 0, x |-> 0, y |-> 0, cells |-> << >>]

BlockIdle == blk = NoBlock

NoGrade == [run |-> FALSE, rgb |-> << >>, params |-> << >>, range |-> FZero,
            pre |-> << >>, out |-> << >>]

GradeIdle == grade = NoGrade

\* Mutex::new(None)
None == [some |-> FALSE, width |-> 0, height |-> 0, data |-> << >>]

Threads == {1, 2}

IdleThread == [pc |-> "idle", cmd |-> "", path |-> "", out |-> NotRun, img |-> << >>,
               ret |-> NotRun]

SessionIdle ==
    /\ preview_context = None
    /\ mutex = 0
    /\ th = [t \in Threads |-> IdleThread]
    /\ observed = None
    /\ saved = {}
    /\ calls = 0

(***************************************************************************)
(* The demosaic engine on whole frames                                     *)
(***************************************************************************)

InitBayer ==
    /\ sensor \in Frames
    /\ quality = FALSE
    /\ locals = NoCalib
    /\ result = NotRun
    /\ StepIdle
    /\ BlockIdle
    /\ GradeIdle
    /\ SessionIdle

\* process_bayer(&raw, q)
RunBayer(q) ==
    /\ result = NotRun
    /\ quality' = q
    /\ result' = process_bayer(sensor, q)
    /\ locals' = IF sensor.kind # "Integer" THEN NoCalib
                ELSE [run |-> TRUE, step |-> BayerStep(sensor.width, q),
                      wb_norm |-> calculate_wb_norm(sensor),
                      cam_to_srgb |-> calculate_cam_to_srgb(sensor)]
    /\ UNCHANGED <<sensor, StepVars, blk, grade, SessionVars>>

NextBayer == \E q \in BOOLEAN : RunBayer(q)

SpecBayer == InitBayer /\ [][NextBayer]_vars

(***************************************************************************)
(* C1.  calculate_wb_norm: when whiteBalance[green] <= 0 every one of the  *)
(* four gains is 1.0; when it is > 0 the gain of channel c is              *)
(* whiteBalance[c] / whiteBalance[green], and the green gain is 1.0.       *)
(***************************************************************************)
C1_GainsClaim ==
    locals.run =>
        /\ Le(sensor.wb_coeffs[1], FZero) =>
               \A c \in 0 .. 3 : locals.wb_norm[c] = One
        /\ Gt(sensor.wb_coeffs[1], FZero) =>
               /\ \A c \in 0 .. 3 :
                      locals.wb_norm[c] = Div(sensor.wb_coeffs[c], sensor.wb_coeffs[1])
               /\ locals.wb_norm[1] = One

(***************************************************************************)
(* C2.  Every R, G, B component of the buffer process_bayer returns is a   *)
(* number in [0, 1] (never NaN, never infinite) and every alpha is 1.0,    *)
(* for every integer frame, a zero or negative green range included.       *)
(***************************************************************************)
UnitRange(v) == IsFinite(v) /\ Ge(v, FZero) /\ Le(v, One)

C2_UnitRangeClaim ==
    result.ok =>
        \A k \in 1 .. Len(result.data) :
            IF k % 4 = 0 THEN result.data[k] = One ELSE UnitRange(result.data[k])

(***************************************************************************)
(* C4.  The 4x4 RGGB frame of uniform samples 2048, black levels 0, white  *)
(* levels 4095, unit white balance and identity calibration, step 2.       *)
(*   As claimed: one output pixel, R = G = B ~ 0.5, A = 1.0.               *)
(*   As amended: a 2x2 output, four pixels, each R = G = B ~ 0.5, A = 1.0. *)
(***************************************************************************)
C4Frame == Frame(4, 4, "Integer", <<2048>>, BaseLevels, UnitWb, ZeroXyz, RGGB)

Half == Dec(1, 2)
Milli == Dec(1, 1000)

\* |v - 0.5| < 0.001
NearHalf(v) == Lt(Sub(v, Half), Milli) /\ Gt(Sub(v, Half), Neg(Milli))

GreyHalfPixels(buf) ==
    \A p \in 0 .. buf.width * buf.height - 1 :
        /\ NearHalf(buf.data[4 * p + 1])
        /\ buf.data[4 * p + 2] = buf.data[4 * p + 1]
        /\ buf.data[4 * p + 3] = buf.data[4 * p + 1]
        /\ buf.data[4 * p + 4] = One

C4_SinglePixel ==
    (sensor = C4Frame /\ result # NotRun) =>
        /\ result.ok /\ locals.step = 2 /\ locals.cam_to_srgb = Identity3
        /\ result.width * result.height = 1
        /\ Len(result.data) = 4
        /\ GreyHalfPixels(result)

C4_FourPixels ==
    (sensor = C4Frame /\ result # NotRun) =>
        /\ result.ok /\ locals.step = 2 /\ locals.cam_to_srgb = Identity3
        /\ result.width = 2 /\ result.height = 2
        /\ Len(result.data) = 16
        /\ GreyHalfPixels(result)

C4_Witness == sensor = C4Frame /\ result.ok /\ quality /\ Len(result.data) = 16

(***************************************************************************)
(* C5.  When the entries of the composed camera -> sRGB matrix sum to      *)
(* exactly zero, calculate_cam_to_srgb returns the identity and every      *)
(* output pixel is the block-averaged camera (R, G, B) clamped to [0, 1];  *)
(* any other composed matrix is returned unchanged.                        *)
(***************************************************************************)
SameValue(a, b) == (IsNaN(a) /\ IsNaN(b)) \/ FEq(a, b)

C5_IdentityClaim ==
    locals.run =>
        IF FEq(MatrixSum(ComposeMatrix(sensor.xyz)), FZero)
        THEN /\ locals.cam_to_srgb = Identity3
             /\ \A p \in 0 .. result.width * result.height - 1 :
                    \A c \in 1 .. 4 :
                        SameValue(result.data[4 * p + c],
                                  ClampPixel(BlockAverage(sensor, locals.step,
                                                          p % result.width,
                                                          p \div result.width))[c])
        ELSE locals.cam_to_srgb = ComposeMatrix(sensor.xyz)

(***************************************************************************)
(* Step selection alone, on widths up to and beyond the 24 bits of an f32  *)
(***************************************************************************)

MaxStepWidth == 40
MaxStepK == 8
MaxStepOver == 3

StepWidths ==
    (1 .. MaxStepWidth)
    \cup { k * 1024 + d : k \in 1 .. MaxStepK, d \in {-1, 0, 1} }
    \cup { Pow2(MantBits) + d : d \in -2 .. MaxStepOver }

InitStep ==
    /\ sensor_w \in StepWidths
    /\ chosen = NoStep
    /\ BayerIdle
    /\ BlockIdle
    /\ GradeIdle
    /\ SessionIdle

\* lines 103-115 of process_bayer
SelectStep(q) ==
    /\ ~chosen.run
    /\ chosen' = [run |-> TRUE, full_quality |-> q, step |-> BayerStep(sensor_w, q)]
    /\ UNCHANGED <<sensor_w, BayerVars, blk, grade, SessionVars>>

NextStep == \E q \in BOOLEAN : SelectStep(q)

SpecStep == InitStep /\ [][NextStep]_vars

(***************************************************************************)
(* C3.  The Preview step is even and >= 2 for every positive width; it is  *)
(* ceil(width / 1024), raised to at least 2, rounded up to even; the Full  *)
(* step is 2.                                                              *)
(***************************************************************************)
CeilDiv(n, d) == (n + d - 1) \div d
AtLeast2(n) == IF n < 2 THEN 2 ELSE n
EvenUp(n) == n + (n % 2)

C3_ExactCeil ==
    chosen.run =>
        /\ chosen.step % 2 = 0 /\ chosen.step >= 2
        /\ chosen.full_quality => chosen.step = 2
        /\ ~chosen.full_quality => chosen.step = EvenUp(AtLeast2(CeilDiv(sensor_w, 1024)))

\* The quotient is taken of the width converted to f32, which is the width
\* itself up to 2^24 = 16777216: up to there the step is the one of C3, and
\* beyond it is still even and >= 2.
StepUpTo24Bits ==
    chosen.run =>
        /\ chosen.step % 2 = 0 /\ chosen.step >= 2
        /\ chosen.full_quality => chosen.step = 2
        /\ (~chosen.full_quality /\ sensor_w <= Pow2(MantBits)) =>
               chosen.step = EvenUp(AtLeast2(CeilDiv(sensor_w, 1024)))

(***************************************************************************)
(* The block loops alone, on sensors wide enough for a step above 2          *)
(***************************************************************************)

MaxBlockW == 6
MaxBlockH == 7

BlockWidths == (1 .. MaxBlockW) \cup {2049, 3000, 4097, 5000}

\* before the loops: the frame's size, the step, the output size
BlockStart(fw, fh, q, st) ==
    [run |-> FALSE, full_w |-> fw, full_h |-> fh, full_quality |-> q, step |-> st,
     w |-> OutDim(fw, st), h |-> OutDim(fh, st), x |-> 0, y |-> 0, cells |-> << >>]

InitBlocks ==
    /\ \E fw \in BlockWidths : \E fh \in 1 .. MaxBlockH : \E q \in BOOLEAN :
           blk = BlockStart(fw, fh, q, BayerStep(fw, q))
    /\ BayerIdle
    /\ StepIdle
    /\ GradeIdle
    /\ SessionIdle

\* the pixel the loops `for y in 0..h { for x in 0..w {` come to next
VisitAt(x, y) ==
    /\ y < blk.h /\ x < blk.w
    /\ blk' = [blk EXCEPT !.run = TRUE, !.x = x, !.y = y,
                          !.cells = BlockCells(x * blk.step, y * blk.step, blk.step,
                                               blk.full_w, blk.full_h)]

\* one iteration of the pixel loops: the two block loops over its cells
VisitBlock ==
    /\ IF ~blk.run THEN VisitAt(0, 0)
       ELSE IF blk.x + 1 < blk.w THEN VisitAt(blk.x + 1, blk.y)
       ELSE VisitAt(0, blk.y + 1)
    /\ UNCHANGED <<BayerVars, StepVars, grade, SessionVars>>

NextBlocks == VisitBlock

SpecBlocks == InitBlocks /\ [][NextBlocks]_vars

(***************************************************************************)
(* C10.  For every output pixel (x < width / step, y < height / step) the  *)
(* whole step x step block lies inside the sensor: step * step samples are *)
(* accumulated, each index is below width * height, neither bounds check   *)
(* skips a cell, and no cell beyond outW * step, outH * step is read.      *)
(***************************************************************************)
C10_BlocksInside ==
    blk.run =>
        /\ Len(blk.cells) = blk.step * blk.step
        /\ \A n \in 1 .. Len(blk.cells) :
              /\ CellIndex(blk.x * blk.step, blk.y * blk.step, blk.cells[n], blk.full_w)
                     < blk.full_w * blk.full_h
              /\ blk.x * blk.step + blk.cells[n][1] < (blk.full_w \div blk.step) * blk.step
              /\ blk.y * blk.step + blk.cells[n][2] < (blk.full_h \div blk.step) * blk.step
              /\ blk.x * blk.step + blk.cells[n][1] < blk.full_w
              /\ blk.y * blk.step + blk.cells[n][2] < blk.full_h

\* the last block of a row that has remainder columns, at a step above 2
C10_Witness ==
    /\ blk.run /\ blk.step > 2 /\ blk.full_w % blk.step # 0
    /\ blk.x = (blk.full_w \div blk.step) - 1
    /\ Len(blk.cells) = blk.step * blk.step

(***************************************************************************)
(* The grading function alone                                              *)
(***************************************************************************)

Params(ex, co, te, ti, hi, sh, wh, bl, sa) ==
    [exposure |-> ex, contrast |-> co, temperature |-> te, tint |-> ti,
     highlights |-> hi, shadows |-> sh, whites |-> wh, blacks |-> bl,
     saturation |-> sa]

Neutral == Params(FZero, FZero, F5500, FZero, FZero, FZero, FZero, FZero, FZero)

\* whites and blacks from -MaxLevel to MaxLevel, and far out
MaxLevel == 6

LevelVals == { FromInt(v) : v \in -MaxLevel .. MaxLevel }
             \cup { FromInt(1000000000), FromInt(-1000000000) }

GradeParams ==
    { [Neutral EXCEPT !.whites = wh, !.blacks = bl] : wh \in LevelVals, bl \in LevelVals }
    \cup { [Neutral EXCEPT !.exposure = FromInt(v)] : v \in {-1, 1, 2} }
    \cup { [Neutral EXCEPT !.contrast = v] : v \in {Dec(1, 2), Neg(Dec(1, 2))} }
    \cup { [Neutral EXCEPT !.temperature = FromInt(v)] : v \in {3000, 8000} }
    \cup { [Neutral EXCEPT !.tint = FromInt(v)] : v \in {-50, 50} }
    \cup { [Neutral EXCEPT !.highlights = FromInt(v)] : v \in {-1, 1} }
    \cup { [Neutral EXCEPT !.shadows = FromInt(v)] : v \in {-1, 1} }
    \cup { [Neutral EXCEPT !.saturation = v] : v \in {Neg(One), Dec(1, 2)} }

GradeInputs ==
    { Rgb(FHalf, FHalf, FHalf), Rgb(One, One, One), Rgb(FZero, FZero, FZero),
      Rgb(Dec(1, 4), FHalf, One), Rgb(Dec(2048, 4095), Dec(2048, 4095), Dec(2048, 4095)),
      Rgb(One, Dec(1, 3), Dec(1, 10)), Rgb(Neg(Dec(1, 4)), FHalf, Dec(3, 2)),
      Rgb(NaN, FHalf, Inf(0)), Rgb(Neg(FZero), One, FHalf) }

InitGrade ==
    /\ \E rgb \in GradeInputs : \E p \in GradeParams :
           grade = [NoGrade EXCEPT !.rgb = rgb, !.params = p]
    /\ BayerIdle
    /\ StepIdle
    /\ BlockIdle
    /\ SessionIdle

\* apply_processing(r, g, b, &params)
Grade ==
    /\ ~grade.run
    /\ grade' = [grade EXCEPT
                    !.run = TRUE,
                    !.range = LevelsRange(grade.params),
                    !.pre = PreGamma(grade.rgb, grade.params),
                    !.out = apply_processing(grade.rgb[0], grade.rgb[1], grade.rgb[2],
                                             grade.params)]
    /\ UNCHANGED <<BayerVars, StepVars, blk, SessionVars>>

NextGrade == Grade

SpecGrade == InitGrade /\ [][NextGrade]_vars

(***************************************************************************)
(* C8.  For any blacks and whites the levels stage divides by a range that *)
(* is never below 0.001, and the output stays finite, for extreme negative *)
(* blacks and whites too.                                                  *)
(***************************************************************************)
FiniteOut(v) == v.k \in {"fin", "pow"}

C8_RangeClaim ==
    (grade.run /\ \A i \in 0 .. 2 : IsFinite(grade.rgb[i])) =>
        /\ Ge(grade.range, F0001)
        /\ \A i \in 0 .. 2 : FiniteOut(grade.out[i])

(***************************************************************************)
(* C9.  With all-neutral parameters every stage before the gamma encoding  *)
(* leaves every RGB triple unchanged, so each channel of the result is     *)
(* max(channel, 0) ^ (1 / 2.2); grading (0.5, 0.5, 0.5) gives 0.5 ^ (1/2.2)*)
(* on every channel.                                                       *)
(***************************************************************************)
C9_NeutralIsGamma ==
    (grade.run /\ grade.params = Neutral) =>
        /\ grade.pre = grade.rgb
        /\ \A i \in 0 .. 2 : grade.out[i] = PowGamma(FMax(grade.rgb[i], FZero))
        /\ grade.rgb = Rgb(FHalf, FHalf, FHalf) =>
               \A i \in 0 .. 2 : grade.out[i] = [k |-> "pow", s |-> 0, m |-> FHalf.m, e |-> FHalf.e]

C9_Witness ==
    /\ grade.run /\ grade.params = Neutral
    /\ grade.rgb = Rgb(FHalf, FHalf, FHalf)
    /\ grade.out[1].k = "pow"

(***************************************************************************)
(* The session: load_raw and export_image on concurrent threads            *)
(***************************************************************************)

ErrDecode == "decode failed"
ErrSave == "save failed"

Paths == {"a.raw", "b.raw", "f.raw", "missing.raw"}

\* rawloader::decode_file(path).map_err(|e| e.to_string())
decode_file(path) ==
    CASE path = "a.raw" ->
             [ok |-> TRUE, err |-> "",
              raw |-> Frame(2, 2, "Integer", <<2048>>, BaseLevels, UnitWb, ZeroXyz, RGGB)]
      [] path = "b.raw" ->
             [ok |-> TRUE, err |-> "",
              raw |-> Frame(4, 2, "Integer", <<0, 1000, 4095>>, BaseLevels, UnitWb,
                            ZeroXyz, RGGB)]
      [] path = "f.raw" ->
             [ok |-> TRUE, err |-> "",
              raw |-> Frame(2, 2, "Float", <<2048>>, BaseLevels, UnitWb, ZeroXyz, RGGB)]
      [] OTHER -> [ok |-> FALSE, err |-> ErrDecode, raw |-> NoFrame]

\* commands in flight and finished are bounded
MaxCalls == 3

\* Mutex::lock: blocks while another guard is alive
MutexIgnored(m) == TRUE

MutexFree(m) == m = 0

OtherVars == <<BayerVars, StepVars, blk, grade>>

InitSession ==
    /\ SessionIdle
    /\ BayerIdle
    /\ StepIdle
    /\ BlockIdle
    /\ GradeIdle

Fail(t, msg) == [th EXCEPT ![t].pc = "done", ![t].ret = Err(msg)]

\* the ? of decode_file: the frame, or the early return of the error
Decoded(t, cmd, path) ==
    IF decode_file(path).ok
    THEN [th EXCEPT ![t].pc = "decoded", ![t].cmd = cmd, ![t].path = path]
    ELSE [th EXCEPT ![t].pc = "done", ![t].cmd = cmd, ![t].path = path,
                    ![t].ret = Err(decode_file(path).err)]

\* load_raw: let raw = rawloader::decode_file(path).map_err(|e| e.to_string())?;
LoadDecode(t, path) ==
    /\ th[t].pc = "idle"
    /\ calls < MaxCalls
    /\ calls' = calls + 1
    /\ th' = Decoded(t, "load_raw", path)
    /\ UNCHANGED <<preview_context, mutex, observed, saved, OtherVars>>

\* process_bayer(&raw, full_quality) of every file that decodes
Demosaiced ==
    { <<path, q, process_bayer(decode_file(path).raw, q)>> :
        path \in { f \in Paths : decode_file(f).ok }, q \in BOOLEAN }

DemosaicOf(path, q) ==
    (CHOOSE d \in Demosaiced : d[1] = path /\ d[2] = q)[3]

\* the ? of process_bayer: its value, or the early return of its error
Processed(t, out) ==
    IF out.ok THEN [th EXCEPT ![t].pc = "processed", ![t].out = out]
    ELSE [th EXCEPT ![t].pc = "done", ![t].out = out, ![t].ret = Err(out.err)]

\* let preview = process_bayer(&raw, false)?;  and the clone into the result
LoadProcess(t) ==
    /\ th[t].pc = "decoded" /\ th[t].cmd = "load_raw"
    /\ th' = Processed(t, DemosaicOf(th[t].path, FALSE))
    /\ UNCHANGED <<preview_context, mutex, observed, saved, calls, OtherVars>>

\* state.preview_context.lock().unwrap()
LoadLock(t) ==
    /\ th[t].pc = "processed" /\ th[t].cmd = "load_raw"
    /\ MutexFree(mutex)
    /\ mutex' = t
    /\ th' = [th EXCEPT ![t].pc = "locked"]
    /\ UNCHANGED <<preview_context, observed, saved, calls, OtherVars>>

\* *guard = Some(preview): the move into the guarded place, the dimensions
\* first
LoadStoreDims(t) ==
    /\ th[t].pc = "locked"
    /\ preview_context' = [preview_context EXCEPT !.some = TRUE,
                              !.width = th[t].out.width, !.height = th[t].out.height]
    /\ th' = [th EXCEPT ![t].pc = "dims"]
    /\ UNCHANGED <<mutex, observed, saved, calls, OtherVars>>

\* then the vector
LoadStoreData(t) ==
    /\ th[t].pc = "dims"
    /\ preview_context' = [preview_context EXCEPT !.data = th[t].out.data]
    /\ th' = [th EXCEPT ![t].pc = "stored"]
    /\ UNCHANGED <<mutex, observed, saved, calls, OtherVars>>

\* the guard is dropped at the end of the statement; Ok(result)
LoadUnlock(t) ==
    /\ th[t].pc = "stored"
    /\ mutex' = 0
    /\ th' = [th EXCEPT ![t].pc = "done", ![t].ret = th[t].out]
    /\ UNCHANGED <<preview_context, observed, saved, calls, OtherVars>>

\* export_image: let raw = rawloader::decode_file(path).map_err(|e| e.to_string())?;
ExportDecode(t, path) ==
    /\ th[t].pc = "idle"
    /\ calls < MaxCalls
    /\ calls' = calls + 1
    /\ th' = Decoded(t, "export_image", path)
    /\ UNCHANGED <<preview_context, mutex, observed, saved, OtherVars>>

\* let processed = process_bayer(&raw, true)?;
ExportProcess(t) ==
    /\ th[t].pc = "decoded" /\ th[t].cmd = "export_image"
    /\ th' = Processed(t, DemosaicOf(th[t].path, TRUE))
    /\ UNCHANGED <<preview_context, mutex, observed, saved, calls, OtherVars>>

\* (v.clamp(0.0, 1.0) * 255.0) as u8 of a gamma encoded value: NaN casts to 0,
\* 1.0 and above to 255; the byte of a value strictly between is kept as the
\* term "u8" of that value
ToU8(v) ==
    CASE v.k = "nan" -> 0
      [] v.k = "inf" -> IF v.s = 0 THEN 255 ELSE 0
      [] v.k = "fin" -> IF IsZero(v) \/ v.s = 1 THEN 0
                        ELSE IF Ge(v, One) THEN 255 ELSE [k |-> "u8", of |-> v]
      [] v.k = "pow" -> IF Gt(F(0, v.m, v.e), One) THEN 255 ELSE [k |-> "u8", of |-> v]

RenderPixel(out) == <<ToU8(out[0]), ToU8(out[1]), ToU8(out[2])>>

RenderAt(data, idx, params) ==
    RenderPixel(apply_processing(data[idx + 1], data[idx + 2], data[idx + 3], params))

\* for (x, y, pixel) in imgbuf.enumerate_pixels_mut()
Render(processed, params) ==
    [p \in 1 .. processed.width * processed.height |->
        RenderAt(processed.data, (p - 1) * 4, params)]

ExportRender(t, params) ==
    /\ th[t].pc = "processed" /\ th[t].cmd = "export_image"
    /\ th' = [th EXCEPT ![t].pc = "rendered", ![t].img = Render(th[t].out, params)]
    /\ UNCHANGED <<preview_context, mutex, observed, saved, calls, OtherVars>>

\* imgbuf.save(save_path).map_err(|e| e.to_string())?; Ok(())
ExportSave(t, written) ==
    /\ th[t].pc = "rendered"
    /\ saved' = IF written THEN saved \cup {th[t].img} ELSE saved
    /\ th' = IF written THEN [th EXCEPT ![t].pc = "done", ![t].ret = Ok(0, 0, << >>)]
             ELSE Fail(t, ErrSave)
    /\ UNCHANGED <<preview_context, mutex, observed, calls, OtherVars>>

\* the command returns to its caller
Return(t) ==
    /\ th[t].pc = "done"
    /\ th' = [th EXCEPT ![t] = IdleThread]
    /\ UNCHANGED <<preview_context, mutex, observed, saved, calls, OtherVars>>

\* a reader of the cache: the value behind the lock, cloned under the guard
ReadCache ==
    /\ MutexFree(mutex)
    /\ observed' = preview_context
    /\ UNCHANGED <<preview_context, mutex, th, saved, calls, OtherVars>>

Next ==
    \/ \E t \in Threads : \E path \in Paths : LoadDecode(t, path)
    \/ \E t \in Threads : LoadProcess(t)
    \/ \E t \in Threads : LoadLock(t)
    \/ \E t \in Threads : LoadStoreDims(t)
    \/ \E t \in Threads : LoadStoreData(t)
    \/ \E t \in Threads : LoadUnlock(t)
    \/ \E t \in Threads : \E path \in Paths : ExportDecode(t, path)
    \/ \E t \in Threads : ExportProcess(t)
    \/ \E t \in Threads : ExportRender(t, Neutral)
    \/ \E t \in Threads : \E written \in BOOLEAN : ExportSave(t, written)
    \/ \E t \in Threads : Return(t)
    \/ ReadCache

Spec == InitSession /\ [][Next]_vars

(***************************************************************************)
(* C6.  Under any interleaving of load_raw calls and cache reads the cache *)
(* is, whenever it can be seen, empty or exactly one complete buffer of a  *)
(* single successful decode (data length = width * height * 4); a reader   *)
(* never gets a partially written buffer or a mix of two decodes.          *)
(***************************************************************************)
DecodedPreviews == { d[3] : d \in { e \in Demosaiced : ~e[2] /\ e[3].ok } }

Whole(c) ==
    \/ c = None
    \/ /\ c.some
       /\ Len(c.data) = c.width * c.height * 4
       /\ \E d \in DecodedPreviews :
              c.width = d.width /\ c.height = d.height /\ c.data = d.data

C6_CacheWhole ==
    /\ mutex = 0 => Whole(preview_context)
    /\ Whole(observed)

\* a reader got one decode's buffer and the next decode has replaced it
C6_Witness ==
    /\ mutex = 0
    /\ observed.some /\ preview_context.some
    /\ observed.width # preview_context.width
    /\ \E t \in Threads : th[t].pc = "processed" /\ th[t].cmd = "load_raw"

(***************************************************************************)
(* C7.  Sensor data that is not integer-encoded makes process_bayer return *)
(* an error and no buffer; load_raw and export_image return that error to  *)
(* the caller, and no step of a load_raw that fails (decode failure or       *)
(* unsupported encoding) changes the cache.                                *)
(***************************************************************************)
IsFloatFile(path) == decode_file(path).ok /\ decode_file(path).raw.kind # "Integer"

FailingFile(path) == ~decode_file(path).ok \/ IsFloatFile(path)

ErrorSurfaced ==
    \A t \in Threads :
        /\ (th[t].cmd # "" /\ IsFloatFile(th[t].path) /\ th[t].pc # "decoded") =>
               /\ th[t].out = Err(ErrFloat)
               /\ th[t].out.data = << >>
               /\ th[t].pc = "done" /\ th[t].ret = Err(ErrFloat)
        /\ (th[t].cmd # "" /\ ~decode_file(th[t].path).ok) =>
               th[t].pc = "done" /\ th[t].ret = Err(ErrDecode)

FailedLoadKeepsCache ==
    \A t \in Threads :
        (th[t].cmd = "load_raw" /\ FailingFile(th[t].path) /\ th'[t] # th[t]) =>
            preview_context' = preview_context /\ mutex' = mutex

C7_FloatIsError == [](ErrorSurfaced) /\ [][FailedLoadKeepsCache]_vars

C7_Witness ==
    /\ preview_context.some /\ mutex = 0
    /\ \E t \in Threads :
           /\ th[t].pc = "done" /\ th[t].cmd = "load_raw" /\ th[t].path = "f.raw"
           /\ th[t].ret = Err(ErrFloat)
    /\ \E t \in Threads :
           /\ th[t].pc = "done" /\ th[t].cmd = "export_image" /\ th[t].path = "f.raw"
           /\ th[t].ret = Err(ErrFloat)

====
